---- MODULE Spec2Model ----
(***************************************************************************)
(* Model of src/dashboard.py: a Streamlit script that is re-executed top   *)
(* to bottom on every user interaction.  One process holds the memo of     *)
(* load_data (st.cache_data) and the widget state of the session; one run  *)
(* of the script is the sequence LoadData, Title, StopCheck, Sidebar,      *)
(* Metrics, Chart1, Chart2, Table.                                         *)
(***************************************************************************)
EXTENDS Integers, Sequences, FiniteSets, TLC

VARIABLES
    DATA_FILE,          \* the CSV on disk: [exists, cols, rows]
    cache,              \* memo of load_data: [filled, value, messages]
    reads,              \* number of pd.read_csv calls made by the process
    first,              \* history: outcome of the first load_data call
    executed,           \* this run's load_data call ran its body (cache miss)
    session,            \* widget state of the session: [has, contract, internet]
    pc,                 \* position of the running script
    df,                 \* what load_data returned to this run
    rendered,           \* UI elements emitted by this run, in order
    contract_filter,    \* value of the 'Select Contract Type' multiselect
    internet_filter,    \* value of the 'Select Internet Service' multiselect
    filtered_df,        \* df[mask]
    overall_churn_rate,
    segment_churn_rate,
    preview,            \* rows handed to st.dataframe
    shown_overall       \* history: every overall churn rate displayed so far

vars == <<DATA_FILE, cache, reads, first, executed, session, pc, df, rendered,
          contract_filter, internet_filter, filtered_df, overall_churn_rate,
          segment_churn_rate, preview, shown_overall>>

-----------------------------------------------------------------------------
(* Bounds of the model *)

MaxRows == 2

MaxFsRows == 1

(* Program constant: filtered_df.head(10) *)
PreviewRows == 10

-----------------------------------------------------------------------------
(* Tables *)

ContractValues == {"Month-to-month", "Two year"}
InternetValues == {"DSL", "Fiber optic"}
TenureValues == {"0-1 Year"}
ChurnValues == {"Yes", "No"}
LabelValues == {0, 1}

AllColumns == {"Contract", "InternetService", "tenure_bucket", "Churn", "churn_label"}

\* Headers a file may have: the complete schema and the schemas that lack
\* one column or both churn columns.
Schemas ==
    { AllColumns,
      AllColumns \ {"churn_label"},
      AllColumns \ {"Churn"},
      AllColumns \ {"Churn", "churn_label"},
      AllColumns \ {"Contract"},
      AllColumns \ {"InternetService"},
      AllColumns \ {"tenure_bucket"} }

FullRows ==
    [Contract : ContractValues, InternetService : InternetValues,
     tenure_bucket : TenureValues, Churn : ChurnValues, churn_label : LabelValues]

\* The rows of the files that are rewritten while the process runs: one
\* contract type and one internet service, every churn value.
FsRows ==
    { r \in FullRows : r.Contract = "Month-to-month" /\ r.InternetService = "DSL" }

RowsOf(base, cols) == { [c \in cols |-> r[c]] : r \in base }

RECURSIVE SeqsUpTo(_, _)
SeqsUpTo(S, n) ==
    IF n = 0 THEN { <<>> }
    ELSE LET p == SeqsUpTo(S, n - 1)
         IN  p \cup { Append(s, x) : s \in { t \in p : Len(t) = n - 1 }, x \in S }

NoFile == [exists |-> FALSE, cols |-> {}, rows |-> <<>>]

FilesUpTo(base, n) ==
    { NoFile } \cup
    UNION { { [exists |-> TRUE, cols |-> s, rows |-> t] : t \in SeqsUpTo(RowsOf(base, s), n) }
            : s \in Schemas }

None == [isNone |-> TRUE, cols |-> {}, rows |-> <<>>]

Table(cols, rows) == [isNone |-> FALSE, cols |-> cols, rows |-> rows]

\* pd.read_csv(DATA_FILE)
read_csv(f) == Table(f.cols, f.rows)

\* Mutant: the comparison is made with another spelling of the value.
ChurnToLabelOtherCase(x) == IF x = "yes" THEN 1 ELSE 0

\* lambda x: 1 if x == "Yes" else 0
ChurnToLabel(x) == IF x = "Yes" THEN 1 ELSE 0

RECURSIVE MapRows(_, _)
MapRows(rows, cols) ==
    IF rows = <<>> THEN <<>>
    ELSE <<[c \in cols |-> IF c = "churn_label"
                             THEN ChurnToLabel(Head(rows)["Churn"])
                             ELSE Head(rows)[c]]>>
         \o MapRows(Tail(rows), cols)

\* df["churn_label"] = df["Churn"].apply(...)
AddChurnLabel(t) ==
    Table(t.cols \cup {"churn_label"}, MapRows(t.rows, t.cols \cup {"churn_label"}))

\* The body of load_data: the table or None, the st.error elements it emits,
\* and whether it read the file.
load_data_body(f) ==
    IF ~f.exists
    THEN [value |-> None, messages |-> <<"error_file_not_found", "error_file_hint">>,
          read |-> FALSE]
    ELSE LET t == read_csv(f)
         IN  IF "churn_label" \notin t.cols
             THEN IF "Churn" \in t.cols
                  THEN [value |-> AddChurnLabel(t), messages |-> <<>>, read |-> TRUE]
                  ELSE [value |-> None, messages |-> <<"error_no_churn_column">>,
                        read |-> TRUE]
             ELSE [value |-> t, messages |-> <<>>, read |-> TRUE]

\* Mutant: load_data without the memo, the body runs on every call.
load_data_uncached(c, f) ==
    LET o == load_data_body(f)
    IN  [value |-> o.value, messages |-> o.messages, read |-> o.read, miss |-> TRUE]

\* @st.cache_data: a filled memo answers the call, replaying the elements
\* the body emitted; otherwise the body runs.
load_data(c, f) ==
    IF c.filled
    THEN [value |-> c.value, messages |-> c.messages, read |-> FALSE, miss |-> FALSE]
    ELSE LET o == load_data_body(f)
         IN  [value |-> o.value, messages |-> o.messages, read |-> o.read, miss |-> TRUE]

\* df[col].unique()
Unique(t, col) == { t.rows[i][col] : i \in 1..Len(t.rows) }

\* Mutant: the two membership tests are joined by | instead of &.
MaskOr(t, cf, inf) ==
    [i \in 1..Len(t.rows) |->
        (t.rows[i]["Contract"] \in cf) \/ (t.rows[i]["InternetService"] \in inf)]

\* Mutant: both membership tests read the Contract column.
MaskSameColumn(t, cf, inf) ==
    [i \in 1..Len(t.rows) |->
        (t.rows[i]["Contract"] \in cf) /\ (t.rows[i]["Contract"] \in inf)]

\* (df['Contract'].isin(...)) & (df['InternetService'].isin(...))
Mask(t, cf, inf) ==
    [i \in 1..Len(t.rows) |->
        (t.rows[i]["Contract"] \in cf) /\ (t.rows[i]["InternetService"] \in inf)]

RECURSIVE BoolIndex(_, _, _)
BoolIndex(rows, mask, i) ==
    IF i > Len(rows) THEN <<>>
    ELSE (IF mask[i] THEN <<rows[i]>> ELSE <<>>) \o BoolIndex(rows, mask, i + 1)

\* Mutant: the selection starts after the first row.
FilterSkipFirst(t, cf, inf) == Table(t.cols, BoolIndex(t.rows, Mask(t, cf, inf), 2))

\* filtered_df = df[mask]
Filter(t, cf, inf) == Table(t.cols, BoolIndex(t.rows, Mask(t, cf, inf), 1))

\* Rates are exact fractions; the mean of an empty column is NaN.
NaN == [nan |-> TRUE, num |-> 0, den |-> 1]
Rate(n, d) == [nan |-> FALSE, num |-> n, den |-> d]
Zero == Rate(0, 1)

RECURSIVE SumLabels(_)
SumLabels(rows) ==
    IF rows = <<>> THEN 0 ELSE Head(rows)["churn_label"] + SumLabels(Tail(rows))

\* t['churn_label'].mean()
Mean(t) == IF Len(t.rows) = 0 THEN NaN ELSE Rate(SumLabels(t.rows), Len(t.rows))

\* df['churn_label'].mean()
OverallRate(t) == Mean(t)

\* Mutant: the mean is taken without the emptiness guard.
SegmentRateUnguarded(ft) == Mean(ft)

\* filtered_df['churn_label'].mean() if not filtered_df.empty else 0.0
SegmentRate(ft) == IF Len(ft.rows) # 0 THEN Mean(ft) ELSE Zero

\* filtered_df.head(10)
HeadRows(rows, n) == IF Len(rows) <= n THEN rows ELSE SubSeq(rows, 1, n)

-----------------------------------------------------------------------------
(* The process *)

NoSession == [has |-> FALSE, contract |-> {}, internet |-> {}]
NoFirst == [set |-> FALSE, value |-> None, messages |-> <<>>]
EmptyCache == [filled |-> FALSE, value |-> None, messages |-> <<>>]

Terminal == {"done", "stopped", "crashed"}

RunReset ==
    /\ pc' = "start"
    /\ df' = None
    /\ rendered' = <<>>
    /\ executed' = FALSE
    /\ contract_filter' = {}
    /\ internet_filter' = {}
    /\ filtered_df' = None
    /\ overall_churn_rate' = NaN
    /\ segment_churn_rate' = NaN
    /\ preview' = <<>>

InitWith(files) ==
    /\ DATA_FILE \in files
    /\ cache = EmptyCache
    /\ reads = 0
    /\ first = NoFirst
    /\ executed = FALSE
    /\ session = NoSession
    /\ pc = "start"
    /\ df = None
    /\ rendered = <<>>
    /\ contract_filter = {}
    /\ internet_filter = {}
    /\ filtered_df = None
    /\ overall_churn_rate = NaN
    /\ segment_churn_rate = NaN
    /\ preview = <<>>
    /\ shown_overall = {}

Init == InitWith(FilesUpTo(FullRows, MaxRows))

InitFS == InitWith(FilesUpTo(FsRows, MaxFsRows))

\* df = load_data()
LoadData ==
    /\ pc = "start"
    /\ LET o == load_data(cache, DATA_FILE)
       IN  /\ df' = o.value
           /\ rendered' = rendered \o o.messages
           /\ executed' = o.miss
           /\ reads' = IF o.read THEN reads + 1 ELSE reads
           /\ cache' = IF o.miss
                       THEN [filled |-> TRUE, value |-> o.value, messages |-> o.messages]
                       ELSE cache
           /\ first' = IF first.set THEN first
                       ELSE [set |-> TRUE, value |-> o.value, messages |-> o.messages]
    /\ pc' = "loaded"
    /\ UNCHANGED <<DATA_FILE, session, contract_filter, internet_filter, filtered_df,
                   overall_churn_rate, segment_churn_rate, preview, shown_overall>>

\* st.title(...)
Title ==
    /\ pc = "loaded"
    /\ rendered' = Append(rendered, "title")
    /\ pc' = "titled"
    /\ UNCHANGED <<DATA_FILE, cache, reads, first, executed, session, df,
                   contract_filter, internet_filter, filtered_df, overall_churn_rate,
                   segment_churn_rate, preview, shown_overall>>

\* Mutant: the script goes on without st.stop().
StopCheckNoStop ==
    /\ pc = "titled"
    /\ pc' = "checked"
    /\ UNCHANGED <<DATA_FILE, cache, reads, first, executed, session, df, rendered,
                   contract_filter, internet_filter, filtered_df, overall_churn_rate,
                   segment_churn_rate, preview, shown_overall>>

\* if df is None: st.stop()
StopCheck ==
    /\ pc = "titled"
    /\ pc' = IF df.isNone THEN "stopped" ELSE "checked"
    /\ UNCHANGED <<DATA_FILE, cache, reads, first, executed, session, df, rendered,
                   contract_filter, internet_filter, filtered_df, overall_churn_rate,
                   segment_churn_rate, preview, shown_overall>>

\* The sidebar: header and the two multiselects.  df['Contract'] and
\* df['InternetService'] raise KeyError when the column is absent; the
\* framework shows the exception and the run ends there.
Sidebar ==
    /\ pc = "checked"
    /\ IF "Contract" \notin df.cols
       THEN /\ rendered' = rendered \o <<"sidebar_header", "exception">>
            /\ pc' = "crashed"
            /\ UNCHANGED <<contract_filter, internet_filter>>
       ELSE IF "InternetService" \notin df.cols
       THEN /\ rendered' = rendered \o <<"sidebar_header", "contract_filter", "exception">>
            /\ pc' = "crashed"
            /\ contract_filter' = IF session.has THEN session.contract
                                  ELSE Unique(df, "Contract")
            /\ UNCHANGED internet_filter
       ELSE /\ rendered' = rendered \o <<"sidebar_header", "contract_filter", "internet_filter">>
            /\ pc' = "sidebar"
            /\ contract_filter' = IF session.has THEN session.contract
                                  ELSE Unique(df, "Contract")
            /\ internet_filter' = IF session.has THEN session.internet
                                  ELSE Unique(df, "InternetService")
    /\ UNCHANGED <<DATA_FILE, cache, reads, first, executed, session, df, filtered_df,
                   overall_churn_rate, segment_churn_rate, preview, shown_overall>>

\* Mutant: the filter is applied in place to the memoized table.
MetricsInPlace ==
    /\ pc = "sidebar"
    /\ filtered_df' = Filter(df, contract_filter, internet_filter)
    /\ cache' = [cache EXCEPT !.value = filtered_df']
    /\ overall_churn_rate' = OverallRate(filtered_df')
    /\ segment_churn_rate' = SegmentRate(filtered_df')
    /\ shown_overall' = shown_overall \cup {overall_churn_rate'}
    /\ rendered' = rendered \o <<"metrics_header", "metric_total", "metric_overall",
                                 "metric_segment", "separator">>
    /\ pc' = "metrics"
    /\ UNCHANGED <<DATA_FILE, reads, first, executed, session, df,
                   contract_filter, internet_filter, preview>>

\* filtered_df, the two rates and the three metrics
Metrics ==
    /\ pc = "sidebar"
    /\ filtered_df' = Filter(df, contract_filter, internet_filter)
    /\ overall_churn_rate' = OverallRate(df)
    /\ segment_churn_rate' = SegmentRate(filtered_df')
    /\ shown_overall' = shown_overall \cup {overall_churn_rate'}
    /\ rendered' = rendered \o <<"metrics_header", "metric_total", "metric_overall",
                                 "metric_segment", "separator">>
    /\ pc' = "metrics"
    /\ UNCHANGED <<DATA_FILE, cache, reads, first, executed, session, df,
                   contract_filter, internet_filter, preview>>

\* px.histogram(filtered_df, x='Contract', color='churn_label', ...)
Chart1 ==
    /\ pc = "metrics"
    /\ rendered' = rendered \o <<"charts_header", "chart_contract">>
    /\ pc' = "chart1"
    /\ UNCHANGED <<DATA_FILE, cache, reads, first, executed, session, df,
                   contract_filter, internet_filter, filtered_df, overall_churn_rate,
                   segment_churn_rate, preview, shown_overall>>

\* px.histogram(filtered_df, x='tenure_bucket', ...) raises when the table
\* has no tenure_bucket column.
Chart2 ==
    /\ pc = "chart1"
    /\ IF "tenure_bucket" \notin filtered_df.cols
       THEN /\ rendered' = Append(rendered, "exception")
            /\ pc' = "crashed"
       ELSE /\ rendered' = Append(rendered, "chart_tenure")
            /\ pc' = "chart2"
    /\ UNCHANGED <<DATA_FILE, cache, reads, first, executed, session, df,
                   contract_filter, internet_filter, filtered_df, overall_churn_rate,
                   segment_churn_rate, preview, shown_overall>>

\* st.header("Filtered Customer Data"); st.dataframe(filtered_df.head(10))
DataTable ==
    /\ pc = "chart2"
    /\ preview' = HeadRows(filtered_df.rows, PreviewRows)
    /\ rendered' = rendered \o <<"table_header", "table">>
    /\ pc' = "done"
    /\ UNCHANGED <<DATA_FILE, cache, reads, first, executed, session, df,
                   contract_filter, internet_filter, filtered_df, overall_churn_rate,
                   segment_churn_rate, shown_overall>>

WidgetsShown ==
    \E i \in 1..Len(rendered) : rendered[i] = "internet_filter"

\* The user changes a multiselect: the new selection is a subset of the
\* options shown, and the script runs again.
Interact ==
    /\ pc \in Terminal
    /\ WidgetsShown
    /\ \E c \in SUBSET Unique(df, "Contract"), n \in SUBSET Unique(df, "InternetService") :
          /\ <<c, n>> # <<contract_filter, internet_filter>>
          /\ session' = [has |-> TRUE, contract |-> c, internet |-> n]
    /\ RunReset
    /\ UNCHANGED <<DATA_FILE, cache, reads, first, shown_overall>>

\* The user asks for a rerun without changing a widget.
Rerun ==
    /\ pc \in Terminal
    /\ RunReset
    /\ UNCHANGED <<DATA_FILE, cache, reads, first, session, shown_overall>>

Next ==
    \/ LoadData
    \/ Title
    \/ StopCheck
    \/ Sidebar
    \/ Metrics
    \/ Chart1
    \/ Chart2
    \/ DataTable
    \/ Interact
    \/ Rerun

Spec == Init /\ [][Next]_vars

\* The environment replaces or removes the data file between two runs.
WriteFile ==
    /\ pc = "start"
    /\ \E f \in FilesUpTo(FsRows, MaxFsRows) :
          /\ f # DATA_FILE
          /\ DATA_FILE' = f
    /\ UNCHANGED <<cache, reads, first, executed, session, pc, df, rendered,
                   contract_filter, internet_filter, filtered_df, overall_churn_rate,
                   segment_churn_rate, preview, shown_overall>>

NextFS ==
    \/ Next
    \/ WriteFile

SpecFS == InitFS /\ [][NextFS]_vars

-----------------------------------------------------------------------------
(* Properties *)

Has(e) == \E i \in 1..Len(rendered) : rendered[i] = e

\* Everything the dashboard shows below its title.
DashboardContent ==
    {"sidebar_header", "contract_filter", "internet_filter", "metrics_header",
     "metric_total", "metric_overall", "metric_segment", "separator",
     "charts_header", "chart_contract", "chart_tenure", "table_header", "table"}

NoContent == \A i \in 1..Len(rendered) : rendered[i] \notin DashboardContent

ErrorShown == Has("error_file_not_found") \/ Has("error_no_churn_column")

FileBad(f) == ~f.exists \/ (f.cols \cap {"churn_label", "Churn"} = {})

\* The run got no table, shows the error, shows nothing of the dashboard
\* below the title, and ends in st.stop().
Halts ==
    /\ df.isNone
    /\ ErrorShown
    /\ NoContent
    /\ pc \in Terminal => pc = "stopped"

\* Metrics has run in this run: filtered_df and the two rates are set.
Computed == ~filtered_df.isNone

IsPrefix(s, t) == Len(s) <= Len(t) /\ \A i \in 1..Len(s) : s[i] = t[i]

InUnit(r) == ~r.nan /\ 0 <= r.num /\ r.num <= r.den

\* C1 as stated: in any run where the data file is missing, or has neither
\* churn_label nor Churn, load_data shows an error and returns no table, and
\* the run halts without filter controls, metrics, charts or data table.
\* (The file changes only between runs, so at pc # "start" DATA_FILE is the
\* file of this run.)
C1_AnyRunWithBadFileHalts ==
    (pc # "start" /\ FileBad(DATA_FILE)) => Halts

\* C1 amended: in any run where load_data executes its body (nothing is
\* memoized yet) and the data file is missing, or has neither churn_label
\* nor Churn, load_data shows an error and returns no table, and the run
\* halts without filter controls, metrics, charts or data table.
C1_ExecutedLoadOfBadFileHalts ==
    (pc # "start" /\ executed /\ FileBad(DATA_FILE)) => Halts

C1_Witness ==
    /\ pc = "stopped"
    /\ executed
    /\ DATA_FILE.exists
    /\ FileBad(DATA_FILE)
    /\ Has("error_no_churn_column")

\* C2: every run ends either with the dashboard fully rendered or halted
\* before rendering any content.  The error text and the page title of a
\* halted run are not counted as content here, which is the reading most
\* favourable to the claim.
C2_NoPartialFailure ==
    pc \in Terminal =>
        \/ pc = "done" /\ Has("title") /\ \A e \in DashboardContent : Has(e)
        \/ NoContent

\* C3: the filtered view holds exactly the rows of the full table whose
\* Contract and InternetService are both selected, in the order of the full
\* table, each row unaltered and taken once.
MatchIdx ==
    { i \in 1..Len(df.rows) :
        /\ df.rows[i]["Contract"] \in contract_filter
        /\ df.rows[i]["InternetService"] \in internet_filter }

Kth(S, k) == CHOOSE i \in S : Cardinality({ j \in S : j <= i }) = k

C3_FilteredViewExact ==
    Computed =>
        /\ filtered_df.cols = df.cols
        /\ Len(filtered_df.rows) = Cardinality(MatchIdx)
        /\ \A k \in 1..Len(filtered_df.rows) :
              filtered_df.rows[k] = df.rows[Kth(MatchIdx, k)]

C3_Witness ==
    /\ pc = "done"
    /\ Len(df.rows) >= 2
    /\ Len(filtered_df.rows) = 1
    /\ filtered_df.rows[1] = df.rows[2]
    /\ df.rows[1] # df.rows[2]

\* C4: a table read without churn_label but with Churn is returned with
\* churn_label = 1 where Churn is "Yes" and 0 elsewhere, its other columns
\* as read; a table read with churn_label is returned as read.
C4_DerivationLaw ==
    (pc # "start" /\ DATA_FILE.exists) =>
        /\ ("churn_label" \notin DATA_FILE.cols /\ "Churn" \in DATA_FILE.cols) =>
              /\ ~df.isNone
              /\ df.cols = DATA_FILE.cols \cup {"churn_label"}
              /\ Len(df.rows) = Len(DATA_FILE.rows)
              /\ \A i \in 1..Len(df.rows) :
                    /\ df.rows[i]["churn_label"] =
                          (IF DATA_FILE.rows[i]["Churn"] = "Yes" THEN 1 ELSE 0)
                    /\ \A c \in DATA_FILE.cols : df.rows[i][c] = DATA_FILE.rows[i][c]
        /\ "churn_label" \in DATA_FILE.cols =>
              /\ ~df.isNone
              /\ df.cols = DATA_FILE.cols
              /\ df.rows = DATA_FILE.rows

C4_Witness ==
    /\ pc = "loaded"
    /\ executed
    /\ "churn_label" \notin DATA_FILE.cols
    /\ \E i, j \in 1..Len(df.rows) :
          /\ DATA_FILE.rows[i]["Churn"] = "Yes" /\ df.rows[i]["churn_label"] = 1
          /\ DATA_FILE.rows[j]["Churn"] = "No" /\ df.rows[j]["churn_label"] = 0

C6_OverallRateInUnitInterval ==
    Computed => InUnit(overall_churn_rate)

\* C7: when either selected set is empty the filtered subset has no rows and
\* the segment churn rate is exactly 0.0.
C7_EmptySelection ==
    (Computed /\ (contract_filter = {} \/ internet_filter = {})) =>
        /\ Len(filtered_df.rows) = 0
        /\ segment_churn_rate = Zero

C7_Witness ==
    /\ pc = "done"
    /\ contract_filter = {}
    /\ internet_filter # {}
    /\ Len(df.rows) > 0

\* C8: with every distinct Contract value and every distinct InternetService
\* value of the full table selected, the filtered subset is the full table;
\* and that selection is the one in force while the user has changed nothing.
DistinctValues(col) ==
    { v \in ContractValues \cup InternetValues :
        \E i \in 1..Len(df.rows) : df.rows[i][col] = v }

C8_AllSelectedIsFullTable ==
    /\ (Has("internet_filter") /\ ~session.has) =>
          /\ contract_filter = DistinctValues("Contract")
          /\ internet_filter = DistinctValues("InternetService")
    /\ ( /\ Computed
         /\ contract_filter = DistinctValues("Contract")
         /\ internet_filter = DistinctValues("InternetService") ) =>
          filtered_df = df

C8_Witness ==
    /\ pc = "done"
    /\ ~session.has
    /\ Cardinality(contract_filter) = 2
    /\ Len(df.rows) >= 2
    /\ filtered_df = df

\* C9: filtering the filtered subset again with the same selection gives the
\* same subset, rows and order.
C9_FilterIdempotent ==
    Computed => Filter(filtered_df, contract_filter, internet_filter) = filtered_df

C9_Witness ==
    /\ pc = "done"
    /\ Len(filtered_df.rows) > 0
    /\ Len(filtered_df.rows) < Len(df.rows)

\* C10: once a table is memoized no step changes it, every run works on
\* that same table, and the overall churn rate displayed is the same in
\* every interaction.
C10_FullTableUnchanged ==
    [][ (cache.filled /\ ~cache.value.isNone) =>
            /\ cache' = cache
            /\ pc' # "start" => df' = cache.value
            /\ Cardinality(shown_overall') <= 1 ]_vars

C10_Witness ==
    /\ pc = "done"
    /\ session.has
    /\ Len(filtered_df.rows) < Len(df.rows)
    /\ df = cache.value
    /\ shown_overall = {overall_churn_rate}

====
